---- MODULE Spec2Model ----
(***************************************************************************)
(* A model of geovista's geodesic module (lib/geovista/geodesic.py):        *)
(* geodesic, geodesic_by_idx and the bounding-box manifold builder bbox.   *)
(*                                                                         *)
(* Coordinates are fixed-point integers in units of 1e-6 degree.  The      *)
(* ellipsoid arithmetic of the geodesic library is abstracted by equally   *)
(* spaced planar interpolation; everything the module itself does (index   *)
(* bookkeeping, slicing, validation, closure detection) is modelled as     *)
(* written.  Indices are 0-based as in the source.  bbox is called with    *)
(* the default ellipsoid and radius; its conversions to Cartesian points   *)
(* and to triangles are kept symbolic.                                     *)
(***************************************************************************)
EXTENDS Integers, Sequences, FiniteSets, TLC

\* ------------------------------------------------------------------ bounds
\* Longest coordinate array handed to bbox.
MaxLen == 6
\* Largest subdivision factor c handed to bbox.
MaxC == 3
\* Largest npts handed to geodesic / geodesic_by_idx by an outside caller.
MaxNpts == 3

\* One degree, in model units (1e-6 degree).
Deg == 10 ^ 6

\* ----------------------------------------------------------------- helpers
Abs(x) == IF x < 0 THEN -x ELSE x

NoErr == [kind |-> "none", args |-> <<>>]

Err(kind, args) == [kind |-> kind, args |-> args]

\* Python sequence indexing: i in -n..n-1 is valid, negative counts from the end.
ValidIdx(s, i) == -Len(s) <= i /\ i < Len(s)

At(s, i) == IF i < 0 THEN s[Len(s) + i + 1] ELSE s[i + 1]

\* numpy.isclose(a, b) with its defaults rtol=1e-5, atol=1e-8:
\*   |a - b| <= atol + rtol * |b|
\* in units of 1e-6 degree: 100 * d <= 1 + |b| / 1000, d an integer.
IsClose(a, b) ==
    LET d == Abs(a - b)
    IN  d <= 10 ^ 6 /\ 100 * d <= 1 + (Abs(b) \div 1000)

\* common.wrap: longitudes into the half-open range [-180, 180) degrees.
Wrap(x) == ((x + 180 * Deg) % (360 * Deg)) - 180 * Deg

MANIFOLD_ELLIPSE == "WGS84"

\* -------------------------------------------------------- geodesic library
\* pyproj.Geod.npts as called by geodesic: npts points in all, the initial
\* point among them when initial_idx = 0 and the terminus when
\* terminus_idx = 0, equally spaced.  No point is returned for npts = 0 or
\* when the spacing is undefined (one point asked for, both ends included).
GeodNptsIntermediateOnly(lon1, lat1, lon2, lat2, npts, initial_idx, terminus_idx) ==
    LET seg == npts + 1
        n   == npts + (1 - initial_idx) + (1 - terminus_idx)
    IN  [k \in 1..n |->
            LET m == k - 1 + initial_idx
            IN  << lon1 + ((m * (lon2 - lon1)) \div seg),
                   lat1 + ((m * (lat2 - lat1)) \div seg) >>]

GeodNpts(lon1, lat1, lon2, lat2, npts, initial_idx, terminus_idx) ==
    LET seg == npts + initial_idx + terminus_idx - 1
    IN  IF npts <= 0 \/ seg <= 0
        THEN <<>>
        ELSE [k \in 1..npts |->
                LET m == k - 1 + initial_idx
                IN  << lon1 + ((m * (lon2 - lon1)) \div seg),
                       lat1 + ((m * (lat2 - lat1)) \div seg) >>]

\* geodesic(): resolve the ellipsoid, translate the inclusion flags, ask the
\* library for the points, unzip them and wrap the longitudes.
Geodesic(start_lon, start_lat, end_lon, end_lat, npts, radians, include_start, include_end, geod) ==
    LET g            == IF geod = "None" THEN MANIFOLD_ELLIPSE ELSE geod
        initial_idx  == IF include_start THEN 0 ELSE 1
        terminus_idx == IF include_end THEN 0 ELSE 1
        glonlats     == GeodNpts(start_lon, start_lat, end_lon, end_lat,
                                 npts, initial_idx, terminus_idx)
    IN  IF Len(glonlats) = 0
        THEN \* zip(*[]) yields nothing to unpack into glons, glats
             [err |-> Err("ValueError", <<npts>>), glons |-> <<>>, glats |-> <<>>,
              ellps |-> g, radians |-> radians]
        ELSE [err   |-> NoErr,
              glons |-> [k \in 1..Len(glonlats) |-> Wrap(glonlats[k][1])],
              glats |-> [k \in 1..Len(glonlats) |-> glonlats[k][2]],
              ellps |-> g, radians |-> radians]

\* geodesic_by_idx(): resolve the two indices, then delegate to geodesic.
GeodesicByIdxEndFromStart(lons_, lats_, start_idx, end_idx, npts, radians, include_start, include_end, geod) ==
    IF ~(ValidIdx(lons_, start_idx) /\ ValidIdx(lats_, start_idx)
         /\ ValidIdx(lons_, end_idx) /\ ValidIdx(lats_, end_idx))
    THEN [err |-> Err("IndexError", <<start_idx, end_idx>>),
          glons |-> <<>>, glats |-> <<>>,
          ellps |-> IF geod = "None" THEN MANIFOLD_ELLIPSE ELSE geod,
          radians |-> radians]
    ELSE Geodesic(At(lons_, start_idx), At(lats_, start_idx),
                  At(lons_, end_idx), At(lats_, start_idx),
                  npts, radians, include_start, include_end, geod)

GeodesicByIdx(lons_, lats_, start_idx, end_idx, npts, radians, include_start, include_end, geod) ==
    IF ~(ValidIdx(lons_, start_idx) /\ ValidIdx(lats_, start_idx)
         /\ ValidIdx(lons_, end_idx) /\ ValidIdx(lats_, end_idx))
    THEN [err |-> Err("IndexError", <<start_idx, end_idx>>),
          glons |-> <<>>, glats |-> <<>>,
          ellps |-> IF geod = "None" THEN MANIFOLD_ELLIPSE ELSE geod,
          radians |-> radians]
    ELSE LET g         == IF geod = "None" THEN MANIFOLD_ELLIPSE ELSE geod
             start_lon == At(lons_, start_idx)
             start_lat == At(lats_, start_idx)
             end_lon   == At(lons_, end_idx)
             end_lat   == At(lats_, end_idx)
         IN  Geodesic(start_lon, start_lat, end_lon, end_lat,
                      npts, radians, include_start, include_end, g)

\* ------------------------------------------------------------ bbox: state
VARIABLES
    pc,            \* position of the call in progress
    longitudes,    \* bbox argument: [iterable, v]
    latitudes,     \* bbox argument: [iterable, v]
    c,             \* bbox argument: subdivision factor
    triangulate,   \* bbox argument
    lons, lats,    \* numpy arrays [nd, v]: nd = 1 an array, nd = 0 a scalar
    idx_map,       \* the (c+1) x (c+1) IndexGrid, idx_map[row][column]
    writes,        \* per cell of idx_map, how many times it was assigned
    bbox_lons,     \* VertexBuffer: longitudes
    bbox_lats,     \* VertexBuffer: latitudes
    bbox_count,    \* the counter of points registered
    row_iter,      \* rows the interior loop has still to visit
    row_idx,       \* the interior loop's variable
    faces,         \* the face-index rows [4, v1, v2, v3, v4]
    pdata,         \* the mesh returned
    err,           \* the exception raised, if any
    last_update,   \* the latest bbox_update call: arguments, values written
    g_args,        \* arguments of a direct geodesic / geodesic_by_idx call
    g_ret          \* what that call returned

vars == << pc, longitudes, latitudes, c, triangulate, lons, lats, idx_map, writes,
           bbox_lons, bbox_lats, bbox_count, row_iter, row_idx, faces, pdata,
           err, last_update, g_args, g_ret >>

None == <<>>

Some(x) == <<x>>

\* Content of memory numpy.empty did not initialise, as stored in the model.
Uninit == 0 - 1

NoMesh == [made |-> FALSE, points |-> <<>>, faces |-> <<>>, n_faces |-> 0]

NoUpdate == [called |-> FALSE, idx1 |-> 0, idx2 |-> 0, row |-> None, column |-> None,
             count |-> 0, len_lons |-> 0, len_lats |-> 0, endpoints_written |-> TRUE,
             glons |-> <<>>, glats |-> <<>>, values |-> <<>>]

\* Radius of the manifold, in tenths (the default 1.1).
DefaultRadius == 11

\* The call frame: every local of bbox.
Frame ==
    [pc |-> pc, longitudes |-> longitudes, latitudes |-> latitudes, c |-> c,
     triangulate |-> triangulate, lons |-> lons, lats |-> lats,
     idx_map |-> idx_map, writes |-> writes,
     bbox_lons |-> bbox_lons, bbox_lats |-> bbox_lats, bbox_count |-> bbox_count,
     row_iter |-> row_iter, row_idx |-> row_idx, faces |-> faces, pdata |-> pdata,
     err |-> err, last_update |-> last_update]

Install(s) ==
    /\ pc' = s.pc
    /\ longitudes' = s.longitudes
    /\ latitudes' = s.latitudes
    /\ c' = s.c
    /\ triangulate' = s.triangulate
    /\ lons' = s.lons
    /\ lats' = s.lats
    /\ idx_map' = s.idx_map
    /\ writes' = s.writes
    /\ bbox_lons' = s.bbox_lons
    /\ bbox_lats' = s.bbox_lats
    /\ bbox_count' = s.bbox_count
    /\ row_iter' = s.row_iter
    /\ row_idx' = s.row_idx
    /\ faces' = s.faces
    /\ pdata' = s.pdata
    /\ err' = s.err
    /\ last_update' = s.last_update

Raise(s, e) == [s EXCEPT !.pc = "error", !.err = e]

\* -------------------------------------------------------- bbox: validation
\* Lines 131-151: the three checks on the sizes, in the order of the source.
CheckCountsAtLeast3(n_lons, n_lats) ==
    IF n_lons # n_lats THEN Err("ShapeMismatch", <<n_lons, n_lats>>)
    ELSE IF n_lons < 3 THEN Err("TooFewCorners", <<n_lons>>)
    ELSE IF n_lons > 5 THEN Err("TooManyCorners", <<n_lons>>)
    ELSE NoErr

CheckCounts(n_lons, n_lats) ==
    IF n_lons # n_lats THEN Err("ShapeMismatch", <<n_lons, n_lats>>)
    ELSE IF n_lons < 4 THEN Err("TooFewCorners", <<n_lons>>)
    ELSE IF n_lons > 5 THEN Err("TooManyCorners", <<n_lons>>)
    ELSE NoErr

\* Lines 122-128: a non-iterable argument is wrapped in a list; asanyarray.
AsArray(x) == [nd |-> 1, v |-> x.v]

\* Lines 122-151: entry of bbox up to the end of validation.
Enter(longitudes_, latitudes_, c_, triangulate_) ==
    LET a  == AsArray(longitudes_)
        b  == AsArray(latitudes_)
        e  == CheckCounts(Len(a.v), Len(b.v))
        s0 == [pc |-> "ensure_open", longitudes |-> longitudes_,
               latitudes |-> latitudes_, c |-> c_, triangulate |-> triangulate_,
               lons |-> a, lats |-> b, idx_map |-> <<>>, writes |-> <<>>,
               bbox_lons |-> <<>>, bbox_lats |-> <<>>, bbox_count |-> 0,
               row_iter |-> <<>>, row_idx |-> 0, faces |-> <<>>, pdata |-> NoMesh,
               err |-> NoErr, last_update |-> NoUpdate]
    IN  IF e.kind # "none" THEN Raise(s0, e) ELSE s0

\* Lines 153-155: "ensure the specified bbox geometry is open".  The source
\* rebinds lons, lats to their last ELEMENT (lons[-1]), a 0-d scalar.
EnsureOpen(s) ==
    LET s1 == [s EXCEPT !.pc = "initialise"]
    IN  IF IsClose(At(s.lons.v, 0), At(s.lons.v, -1))
           /\ IsClose(At(s.lats.v, 0), At(s.lats.v, -1))
        THEN [s1 EXCEPT !.lons = [nd |-> 0, v |-> << At(s.lons.v, -1) >>],
                        !.lats = [nd |-> 0, v |-> << At(s.lats.v, -1) >>]]
        ELSE s1

\* Lines 157-169: numpy.empty((c + 1, c + 1)), empty buffers, bbox_count = 0.
Initialise(s) ==
    [s EXCEPT !.pc = "seed",
              !.idx_map = [r \in 0..s.c |-> [k \in 0..s.c |-> Uninit]],
              !.writes = [r \in 0..s.c |-> [k \in 0..s.c |-> 0]],
              !.bbox_lons = <<>>, !.bbox_lats = <<>>, !.bbox_count = 0]

\* Corner indices, line 169.
c1_idx == 0
c2_idx == 1
c3_idx == 2
c4_idx == 3

\* ------------------------------------------------------ bbox: the closures
\* bbox_extend (lines 171-175): len() of both arguments, extend both
\* buffers, return bbox_count + len(lons).  len() of a 0-d scalar raises.
BboxExtend(s, xs, ys) ==
    IF xs.nd = 0 \/ ys.nd = 0
    THEN [err |-> Err("TypeError", <<>>), bbox_lons |-> s.bbox_lons,
          bbox_lats |-> s.bbox_lats, ret |-> s.bbox_count]
    ELSE IF Len(xs.v) # Len(ys.v)
    THEN [err |-> Err("AssertionError", <<>>), bbox_lons |-> s.bbox_lons,
          bbox_lats |-> s.bbox_lats, ret |-> s.bbox_count]
    ELSE [err |-> NoErr, bbox_lons |-> s.bbox_lons \o xs.v,
          bbox_lats |-> s.bbox_lats \o ys.v, ret |-> s.bbox_count + Len(xs.v)]

\* An index k of an axis of n entries, negative counting from the end.
NormIdx(k, n) == IF k < 0 THEN k + n ELSE k

\* Whether the index expression (None = the full slice) selects entry i.
Selects(opt, i, n) == opt = None \/ NormIdx(opt[1], n) = i

\* Line 186, right-hand side: [idx1] + list(arange(npts) + bbox_count) + [idx2].
LineValuesFromOne(idx1, idx2, npts, count) ==
    <<idx1>> \o [k \in 1..npts |-> k + count] \o <<idx2>>

LineValues(idx1, idx2, npts, count) ==
    <<idx1>> \o [k \in 1..npts |-> (k - 1) + count] \o <<idx2>>

\* Line 186, the assignment idx_map[row, column] = values, one of row and
\* column being an index and the other the full slice.
AssignLine(map, row, column, values, n) ==
    [r \in 0..(n - 1) |-> [k \in 0..(n - 1) |->
        IF Selects(row, r, n) /\ Selects(column, k, n)
        THEN values[(IF row = None THEN r ELSE k) + 1]
        ELSE map[r][k]]]

CountLine(w, row, column, n) ==
    [r \in 0..(n - 1) |-> [k \in 0..(n - 1) |->
        IF Selects(row, r, n) /\ Selects(column, k, n)
        THEN w[r][k] + 1
        ELSE w[r][k]]]

\* bbox_update (lines 177-187).  endpoints_written records whether idx1 and
\* idx2 were read from assigned cells (always so for the literal corners).
BboxUpdate(s, idx1, idx2, row, column, endpoints_written) ==
    LET npts == s.c - 1
        n    == s.c + 1
        g    == GeodesicByIdx(s.bbox_lons, s.bbox_lats, idx1, idx2, npts,
                              FALSE, FALSE, FALSE, MANIFOLD_ELLIPSE)
        call == [called |-> TRUE, idx1 |-> idx1, idx2 |-> idx2, row |-> row,
                 column |-> column, count |-> s.bbox_count,
                 len_lons |-> Len(s.bbox_lons), len_lats |-> Len(s.bbox_lats),
                 endpoints_written |-> endpoints_written,
                 glons |-> g.glons, glats |-> g.glats, values |-> <<>>]
    IN  IF row = None /\ column = None
        THEN Raise(s, Err("AssertionError", <<>>))
        ELSE IF g.err.kind # "none"
        THEN Raise([s EXCEPT !.last_update = call], g.err)
        ELSE LET values == LineValues(idx1, idx2, npts, s.bbox_count)
                 s1 == [s EXCEPT !.idx_map = AssignLine(s.idx_map, row, column, values, n),
                                 !.writes = CountLine(s.writes, row, column, n),
                                 !.last_update = [call EXCEPT !.values = values]]
                 e  == BboxExtend(s1, [nd |-> 1, v |-> g.glons], [nd |-> 1, v |-> g.glats])
             IN  IF e.err.kind # "none"
                 THEN Raise(s1, e.err)
                 ELSE [s1 EXCEPT !.bbox_lons = e.bbox_lons, !.bbox_lats = e.bbox_lats,
                                 !.bbox_count = e.ret]

\* ---------------------------------------------------------- bbox: the body
\* Line 190: register the corner points.
Seed(s) ==
    LET e == BboxExtend(s, s.lons, s.lats)
    IN  IF e.err.kind # "none"
        THEN Raise(s, e.err)
        ELSE [s EXCEPT !.pc = "edge_top", !.bbox_lons = e.bbox_lons,
                       !.bbox_lats = e.bbox_lats, !.bbox_count = e.ret]

\* range(1, c), line 197.
InnerRowsFromTwo(c_) == [k \in 1..(c_ - 2) |-> k + 1]

InnerRows(c_) == [k \in 1..(c_ - 1) |-> k]

\* Where control goes once the pending rows are known.
Loop(s, rows) ==
    IF Len(rows) = 0
    THEN [s EXCEPT !.pc = "faces", !.row_iter = rows]
    ELSE [s EXCEPT !.pc = "inner", !.row_iter = rows]

Then(s, next_pc) == IF s.pc = "error" THEN s ELSE [s EXCEPT !.pc = next_pc]

\* Lines 191-194: the four border edges.
EdgeTop(s) == Then(BboxUpdate(s, c1_idx, c2_idx, Some(0), None, TRUE), "edge_bottom")

EdgeBottom(s) == Then(BboxUpdate(s, c4_idx, c3_idx, Some(-1), None, TRUE), "edge_left")

EdgeLeft(s) == Then(BboxUpdate(s, c1_idx, c4_idx, None, Some(0), TRUE), "edge_right")

EdgeRight(s) ==
    LET t == BboxUpdate(s, c2_idx, c3_idx, None, Some(-1), TRUE)
    IN  IF t.pc = "error" THEN t ELSE Loop(t, InnerRows(s.c))

\* Lines 198-199: the cells of the row read as the endpoints, row[0], row[-1].
InnerEndpointCellsSecondColumn(s, r) == << <<r, 1>>, <<r, s.c>> >>

InnerEndpointCells(s, r) == << <<r, 0>>, <<r, NormIdx(-1, s.c + 1)>> >>

\* What reading cell (r, k) of idx_map can yield: its value once assigned,
\* anything (a valid index or not) while it is uninitialised memory.
ReadCell(s, cell) ==
    IF s.writes[cell[1]][cell[2]] > 0
    THEN { s.idx_map[cell[1]][cell[2]] }
    ELSE { 0, s.bbox_count }

CellWritten(s, cell) == s.writes[cell[1]][cell[2]] > 0

\* Lines 197-199: one iteration of the interior loop, the endpoints read
\* being idx1 and idx2.
InnerRow(s, idx1, idx2) ==
    LET r     == Head(s.row_iter)
        cells == InnerEndpointCells(s, r)
        s1    == [s EXCEPT !.row_idx = r]
        t     == BboxUpdate(s1, idx1, idx2, Some(r), None,
                            CellWritten(s, cells[1]) /\ CellWritten(s, cells[2]))
    IN  IF t.pc = "error" THEN t ELSE Loop(t, Tail(s.row_iter))

\* idx_map[r0:r1, k0:k1] followed by numpy.ravel (row-major).
RavelSlice(map, r0, r1, k0, k1) ==
    [p \in 1..((r1 - r0) * (k1 - k0)) |->
        map[r0 + ((p - 1) \div (k1 - k0))][k0 + ((p - 1) % (k1 - k0))]]

\* Lines 201-207: the face rows [4, c1, c2, c3, c4].
FaceRowsSwapped(map, c_) ==
    LET faces_c1 == RavelSlice(map, 0, c_, 0, c_)
        faces_c2 == RavelSlice(map, 1, c_ + 1, 0, c_)
        faces_c3 == RavelSlice(map, 1, c_ + 1, 1, c_ + 1)
        faces_c4 == RavelSlice(map, 0, c_, 1, c_ + 1)
    IN  [p \in 1..(c_ * c_) |-> <<4, faces_c1[p], faces_c2[p], faces_c3[p], faces_c4[p]>>]

FaceRows(map, c_) ==
    LET n_faces  == c_ * c_
        faces_c1 == RavelSlice(map, 0, c_, 0, c_)
        faces_c2 == RavelSlice(map, 0, c_, 1, c_ + 1)
        faces_c3 == RavelSlice(map, 1, c_ + 1, 1, c_ + 1)
        faces_c4 == RavelSlice(map, 1, c_ + 1, 0, c_)
    IN  [p \in 1..n_faces |-> <<4, faces_c1[p], faces_c2[p], faces_c3[p], faces_c4[p]>>]

GenFaces(s) == [s EXCEPT !.pc = "mesh", !.faces = FaceRows(s.idx_map, s.c)]

\* common.to_xyz: each geodetic point to a Cartesian point at the radius,
\* kept symbolic.
ToXYZ(xs, ys, radius) == [k \in 1..Len(xs) |-> [lon |-> xs[k], lat |-> ys[k], r |-> radius]]

\* PolyData.triangulate: each quad split in two triangles along the diagonal
\* from its first vertex.
Triangulate(fs) ==
    [p \in 1..(2 * Len(fs)) |->
        LET q == fs[(p + 1) \div 2]
        IN  IF p % 2 = 1 THEN <<3, q[2], q[3], q[4]>> ELSE <<3, q[2], q[4], q[5]>>]

\* Lines 209-218: the mesh.
GenMesh(s) ==
    LET xyz == ToXYZ(s.bbox_lons, s.bbox_lats, DefaultRadius)
        fs  == IF s.triangulate THEN Triangulate(s.faces) ELSE s.faces
    IN  [s EXCEPT !.pc = "done",
                  !.pdata = [made |-> TRUE, points |-> xyz, faces |-> fs,
                             n_faces |-> Len(fs)]]

\* bbox as a function of its arguments: the steps above, in order.
Step(s) ==
    CASE s.pc = "ensure_open" -> EnsureOpen(s)
      [] s.pc = "initialise"  -> Initialise(s)
      [] s.pc = "seed"        -> Seed(s)
      [] s.pc = "edge_top"    -> EdgeTop(s)
      [] s.pc = "edge_bottom" -> EdgeBottom(s)
      [] s.pc = "edge_left"   -> EdgeLeft(s)
      [] s.pc = "edge_right"  -> EdgeRight(s)
      [] s.pc = "inner"       ->
            LET cells == InnerEndpointCells(s, Head(s.row_iter))
            IN  InnerRow(s, CHOOSE i \in ReadCell(s, cells[1]) : TRUE,
                            CHOOSE i \in ReadCell(s, cells[2]) : TRUE)
      [] s.pc = "faces"       -> GenFaces(s)
      [] s.pc = "mesh"        -> GenMesh(s)

RECURSIVE Run(_)
Run(s) == IF s.pc \in {"done", "error"} THEN s ELSE Run(Step(s))

Bbox(longitudes_, latitudes_, c_, triangulate_) ==
    Run(Enter(longitudes_, latitudes_, c_, triangulate_))

\* ------------------------------------------------------------------ inputs
\* Corner rings handed to bbox: the corners of a quadrilateral, repeated
\* cyclically to the length asked for, the first and the last entry drawn
\* freely (equal, within tolerance of each other, or apart).
RingLons == << 10 * Deg, 50 * Deg, 50 * Deg, 10 * Deg >>

RingLats == << 0, 0, 30 * Deg, 30 * Deg >>

LonEnds == { 10 * Deg, 10 * Deg + 50, 50 * Deg }

LatEnds == { 0, 30 * Deg }

MkArr(n, ring, first, last) ==
    [iterable |-> TRUE,
     v |-> [k \in 1..n |-> IF k = n THEN last
                           ELSE IF k = 1 THEN first
                           ELSE ring[((k - 1) % 4) + 1]]]

Scalar(x) == [iterable |-> FALSE, v |-> <<x>>]

LonInputs ==
    { MkArr(n, RingLons, f, l) : n \in 0..MaxLen, f \in LonEnds, l \in LonEnds }
    \cup { Scalar(x) : x \in LonEnds }

LatInputs ==
    { MkArr(n, RingLats, f, l) : n \in 0..MaxLen, f \in LatEnds, l \in LatEnds }
    \cup { Scalar(x) : x \in LatEnds }

\* Endpoints and arrays handed to geodesic / geodesic_by_idx directly.
GeoLons == { -170 * Deg, 10 * Deg, 185 * Deg }

GeoLats == { 0, 30 * Deg }

GeoArrays ==
    { [lons |-> << 10 * Deg, 50 * Deg, 185 * Deg >>, lats |-> << 0, 30 * Deg, -20 * Deg >>],
      [lons |-> << -170 * Deg, 175 * Deg >>, lats |-> << 5 * Deg, 60 * Deg >>] }

Ellipsoids == { "None", "WGS84", "sphere" }

NoCall == [op |-> "none", start_lon |-> 0, start_lat |-> 0, end_lon |-> 0, end_lat |-> 0,
           longitudes |-> <<>>, latitudes |-> <<>>, start_idx |-> 0, end_idx |-> 0,
           npts |-> 0, radians |-> FALSE, include_start |-> FALSE,
           include_end |-> FALSE, geod |-> "None"]

NoRet == [err |-> NoErr, glons |-> <<>>, glats |-> <<>>, ellps |-> "None",
          radians |-> FALSE, longitudes |-> <<>>, latitudes |-> <<>>]

\* ----------------------------------------------------------- specification
Init ==
    /\ pc = "idle"
    /\ longitudes = [iterable |-> TRUE, v |-> <<>>]
    /\ latitudes = [iterable |-> TRUE, v |-> <<>>]
    /\ c = 0
    /\ triangulate = FALSE
    /\ lons = [nd |-> 1, v |-> <<>>]
    /\ lats = [nd |-> 1, v |-> <<>>]
    /\ idx_map = <<>>
    /\ writes = <<>>
    /\ bbox_lons = <<>>
    /\ bbox_lats = <<>>
    /\ bbox_count = 0
    /\ row_iter = <<>>
    /\ row_idx = 0
    /\ faces = <<>>
    /\ pdata = NoMesh
    /\ err = NoErr
    /\ last_update = NoUpdate
    /\ g_args = NoCall
    /\ g_ret = NoRet

\* A caller invokes bbox: entry and validation (lines 122-151).
CallBbox ==
    /\ pc = "idle"
    /\ \E lo \in LonInputs, la \in LatInputs, c_ \in 1..MaxC, t \in BOOLEAN :
          Install(Enter(lo, la, c_, t))
    /\ UNCHANGED << g_args, g_ret >>

DoEnsureOpen == pc = "ensure_open" /\ Install(EnsureOpen(Frame)) /\ UNCHANGED << g_args, g_ret >>

DoInitialise == pc = "initialise" /\ Install(Initialise(Frame)) /\ UNCHANGED << g_args, g_ret >>

DoSeed == pc = "seed" /\ Install(Seed(Frame)) /\ UNCHANGED << g_args, g_ret >>

DoEdgeTop == pc = "edge_top" /\ Install(EdgeTop(Frame)) /\ UNCHANGED << g_args, g_ret >>

DoEdgeBottom == pc = "edge_bottom" /\ Install(EdgeBottom(Frame)) /\ UNCHANGED << g_args, g_ret >>

DoEdgeLeft == pc = "edge_left" /\ Install(EdgeLeft(Frame)) /\ UNCHANGED << g_args, g_ret >>

DoEdgeRight == pc = "edge_right" /\ Install(EdgeRight(Frame)) /\ UNCHANGED << g_args, g_ret >>

DoInnerRow ==
    /\ pc = "inner"
    /\ LET cells == InnerEndpointCells(Frame, Head(row_iter))
       IN  \E idx1 \in ReadCell(Frame, cells[1]), idx2 \in ReadCell(Frame, cells[2]) :
              Install(InnerRow(Frame, idx1, idx2))
    /\ UNCHANGED << g_args, g_ret >>

DoFaces == pc = "faces" /\ Install(GenFaces(Frame)) /\ UNCHANGED << g_args, g_ret >>

DoMesh == pc = "mesh" /\ Install(GenMesh(Frame)) /\ UNCHANGED << g_args, g_ret >>

\* A caller invokes geodesic.
CallGeodesic ==
    /\ pc = "idle"
    /\ \E lon1 \in GeoLons, lat1 \in GeoLats, lon2 \in GeoLons, lat2 \in GeoLats,
          n \in 0..MaxNpts, rad \in BOOLEAN, is \in BOOLEAN, ie \in BOOLEAN,
          g \in Ellipsoids :
          LET r == Geodesic(lon1, lat1, lon2, lat2, n, rad, is, ie, g)
          IN  /\ g_args' = [NoCall EXCEPT !.op = "geodesic", !.start_lon = lon1,
                                !.start_lat = lat1, !.end_lon = lon2, !.end_lat = lat2,
                                !.npts = n, !.radians = rad, !.include_start = is,
                                !.include_end = ie, !.geod = g]
              /\ g_ret' = [err |-> r.err, glons |-> r.glons, glats |-> r.glats,
                           ellps |-> r.ellps, radians |-> r.radians,
                           longitudes |-> <<>>, latitudes |-> <<>>]
    /\ pc' = "returned"
    /\ UNCHANGED << longitudes, latitudes, c, triangulate, lons, lats, idx_map, writes,
                    bbox_lons, bbox_lats, bbox_count, row_iter, row_idx, faces, pdata,
                    err, last_update >>

\* A caller invokes geodesic_by_idx on arrays of its own.
CallGeodesicByIdx ==
    /\ pc = "idle"
    /\ \E a \in GeoArrays, n \in 0..MaxNpts, rad \in BOOLEAN, is \in BOOLEAN,
          ie \in BOOLEAN, g \in Ellipsoids :
       \E i \in (-Len(a.lons) - 1)..Len(a.lons), j \in (-Len(a.lons) - 1)..Len(a.lons) :
          LET r == GeodesicByIdx(a.lons, a.lats, i, j, n, rad, is, ie, g)
          IN  /\ g_args' = [NoCall EXCEPT !.op = "geodesic_by_idx",
                                !.longitudes = a.lons, !.latitudes = a.lats,
                                !.start_idx = i, !.end_idx = j,
                                !.npts = n, !.radians = rad, !.include_start = is,
                                !.include_end = ie, !.geod = g]
              /\ g_ret' = [err |-> r.err, glons |-> r.glons, glats |-> r.glats,
                           ellps |-> r.ellps, radians |-> r.radians,
                           longitudes |-> a.lons, latitudes |-> a.lats]
    /\ pc' = "returned"
    /\ UNCHANGED << longitudes, latitudes, c, triangulate, lons, lats, idx_map, writes,
                    bbox_lons, bbox_lats, bbox_count, row_iter, row_idx, faces, pdata,
                    err, last_update >>

Next ==
    \/ CallBbox
    \/ DoEnsureOpen
    \/ DoInitialise
    \/ DoSeed
    \/ DoEdgeTop
    \/ DoEdgeBottom
    \/ DoEdgeLeft
    \/ DoEdgeRight
    \/ DoInnerRow
    \/ DoFaces
    \/ DoMesh
    \/ CallGeodesic
    \/ CallGeodesicByIdx

Spec == Init /\ [][Next]_vars

\* ------------------------------------------------------------------ claims
InBbox == pc \notin {"idle", "returned"}

n_lons == Len(longitudes.v)

n_lats == Len(latitudes.v)

Finished == pc \in {"done", "error"}

\* The first and the last input point agree within tolerance on both axes.
ClosedInput ==
    /\ n_lons > 0 /\ n_lats > 0
    /\ IsClose(At(longitudes.v, 0), At(longitudes.v, -1))
    /\ IsClose(At(latitudes.v, 0), At(latitudes.v, -1))

Allocated == DOMAIN idx_map # {}

Cells == (0..c) \X (0..c)

\* C1: bbox rejects malformed corner input before building anything: a
\* length mismatch raises the shape-mismatch error naming both counts, and
\* takes precedence over the corner-count check; equal counts below 4 or
\* above 5 raise the corner-count error naming the count; in each case no
\* IndexGrid, VertexBuffer, face list or mesh exists.
C1_Rejects ==
    InBbox =>
        /\ (n_lons # n_lats =>
                pc = "error" /\ err = Err("ShapeMismatch", <<n_lons, n_lats>>))
        /\ (n_lons = n_lats /\ n_lons < 4 =>
                pc = "error" /\ err = Err("TooFewCorners", <<n_lons>>))
        /\ (n_lons = n_lats /\ n_lons > 5 =>
                pc = "error" /\ err = Err("TooManyCorners", <<n_lons>>))
        /\ (n_lons # n_lats \/ n_lons < 4 \/ n_lons > 5 =>
                /\ ~Allocated
                /\ Len(bbox_lons) = 0 /\ Len(bbox_lats) = 0 /\ bbox_count = 0
                /\ Len(faces) = 0
                /\ ~pdata.made)

C1_Witness ==
    /\ pc = "error" /\ n_lons = 4 /\ n_lats = 5
    /\ err = Err("ShapeMismatch", <<4, 5>>)

\* C2: bbox called with a 5-corner closed ring (5th point equal to the 1st
\* within tolerance) returns a mesh identical (vertex buffer, IndexGrid,
\* face list) to bbox called with the first 4 corners only.
C2_ClosedEqualsOpen ==
    (InBbox /\ Finished /\ n_lons = 5 /\ n_lats = 5 /\ ClosedInput) =>
        LET open == Bbox([iterable |-> TRUE, v |-> SubSeq(longitudes.v, 1, 4)],
                         [iterable |-> TRUE, v |-> SubSeq(latitudes.v, 1, 4)],
                         c, triangulate)
        IN  /\ pdata.made /\ open.pdata.made
            /\ pdata = open.pdata
            /\ bbox_lons = open.bbox_lons /\ bbox_lats = open.bbox_lats
            /\ idx_map = open.idx_map
            /\ faces = open.faces

\* Whether the rows fs are faces of 4 pairwise distinct indices below n.
WellFormedQuads(fs, n) ==
    \A p \in 1..Len(fs) :
        /\ Len(fs[p]) = 5 /\ fs[p][1] = 4
        /\ \A a \in 2..5 : fs[p][a] \in 0..(n - 1)
        /\ \A a \in 2..5, b \in 2..5 : a # b => fs[p][a] # fs[p][b]

OpenFourCorners == n_lons = 4 /\ n_lats = 4 /\ ~ClosedInput /\ ~triangulate

\* C3: for every positive c, c = 1 included, bbox called with exactly 4 open
\* corners returns a mesh of exactly c*c faces and (c+1)*(c+1) vertices,
\* every face listing 4 pairwise distinct in-range vertex indices.
C3_OpenQuadMesh ==
    (InBbox /\ Finished /\ OpenFourCorners) =>
        /\ pdata.made
        /\ pdata.n_faces = c * c /\ Len(pdata.faces) = c * c
        /\ Len(pdata.points) = (c + 1) * (c + 1)
        /\ WellFormedQuads(pdata.faces, Len(pdata.points))

\* C3, the part the code satisfies: the same statement for c >= 2.
C3_OpenQuadMeshFromTwo == c >= 2 => C3_OpenQuadMesh

\* C6: for every input that passes validation (4 open corners, or 5 corners
\* whether or not the 5th duplicates the 1st) the seeding step succeeds and
\* the VertexBuffer holds, before any edge is interpolated, exactly the 4
\* corner points at indices 0..3 in input order (so the first interpolated
\* point gets index 4), and the finished buffer holds no vertex that no face
\* references.
C6_SeedIsFourCorners ==
    (InBbox /\ n_lons = n_lats /\ (n_lons = 5 \/ (n_lons = 4 /\ ~ClosedInput))) =>
        /\ (pc = "error" => last_update.called)
        /\ (pc = "edge_top" =>
                /\ bbox_lons = SubSeq(longitudes.v, 1, 4)
                /\ bbox_lats = SubSeq(latitudes.v, 1, 4)
                /\ bbox_count = 4)
        /\ (pc = "done" =>
                \A i \in 0..(Len(bbox_lons) - 1) :
                    \E p \in 1..Len(faces) : \E a \in 2..5 : faces[p][a] = i)

Flags(a) == (IF a.include_start THEN 1 ELSE 0) + (IF a.include_end THEN 1 ELSE 0)

GeodesicReturned == pc = "returned" /\ g_args.op = "geodesic"

\* C4: for all endpoints and every npts >= 0, geodesic returns a longitude
\* and a latitude sequence of equal length, npts plus one for each included
\* endpoint: npts counts the intermediate points only.
C4_LengthAddsEndpoints ==
    GeodesicReturned =>
        /\ g_ret.err.kind = "none"
        /\ Len(g_ret.glons) = Len(g_ret.glats)
        /\ Len(g_ret.glons) = g_args.npts + Flags(g_args)

\* C4 as amended: whenever geodesic returns, both sequences have length
\* npts whatever the inclusion flags (an included endpoint is one of the
\* npts points); it returns for every npts >= 1 that leaves a spacing
\* (npts >= 2 when both endpoints are included), and raises for npts = 0.
C4_LengthIsNpts ==
    GeodesicReturned =>
        /\ (g_ret.err.kind = "none" =>
                /\ Len(g_ret.glons) = Len(g_ret.glats)
                /\ Len(g_ret.glons) = g_args.npts)
        /\ (g_args.npts >= 1 /\ g_args.npts + 1 - Flags(g_args) >= 1 =>
                g_ret.err.kind = "none")
        /\ (g_args.npts = 0 => g_ret.err.kind # "none")

C4_Witness ==
    /\ GeodesicReturned /\ g_ret.err.kind = "none"
    /\ g_args.npts = 2 /\ g_args.include_start /\ g_args.include_end
    /\ Len(g_ret.glons) = 2
    /\ g_ret.glons[1] = Wrap(g_args.start_lon) /\ g_ret.glons[2] = Wrap(g_args.end_lon)

\* C5: for all arrays, all valid indices i, j and all npts, radians,
\* include_start, include_end and geod, geodesic_by_idx returns exactly what
\* geodesic returns on (lons[i], lats[i], lons[j], lats[j]) with the same
\* flags, and leaves the arrays unchanged.
C5_ByIdxDelegates ==
    (pc = "returned" /\ g_args.op = "geodesic_by_idx"
        /\ ValidIdx(g_args.longitudes, g_args.start_idx)
        /\ ValidIdx(g_args.longitudes, g_args.end_idx)) =>
        LET a == g_args
            r == Geodesic(At(a.longitudes, a.start_idx), At(a.latitudes, a.start_idx),
                          At(a.longitudes, a.end_idx), At(a.latitudes, a.end_idx),
                          a.npts, a.radians, a.include_start, a.include_end, a.geod)
        IN  /\ g_ret.err = r.err
            /\ g_ret.glons = r.glons /\ g_ret.glats = r.glats
            /\ g_ret.ellps = r.ellps /\ g_ret.radians = r.radians
            /\ g_ret.longitudes = a.longitudes /\ g_ret.latitudes = a.latitudes

C5_Witness ==
    /\ pc = "returned" /\ g_args.op = "geodesic_by_idx"
    /\ g_args.start_idx = 0 /\ g_args.end_idx = -1 /\ g_args.npts = 2
    /\ g_args.geod = "None" /\ g_ret.err.kind = "none"
    /\ Len(g_ret.glons) = 2 /\ g_ret.glats[1] # g_ret.glats[2]

Border == { cell \in Cells : cell[1] \in {0, c} \/ cell[2] \in {0, c} }

InteriorUpdate ==
    /\ last_update.called /\ last_update.row # None
    /\ NormIdx(last_update.row[1], c + 1) \in 1..(c - 1)

\* C7: in every build with c >= 2 every interpolation request of
\* bbox_update has both endpoints resolved when it is made: the 4 border
\* edges are filled before any interior row, the cells (r,0) and (r,c) an
\* interior row reads were written by the column fills, both endpoint
\* indices are below the VertexBuffer's length, and no cell of the
\* IndexGrid is read before it was written.
C7_EndpointsResolved ==
    (InBbox /\ c >= 2) =>
        /\ (last_update.called =>
                /\ last_update.endpoints_written
                /\ last_update.idx1 \in 0..(last_update.len_lons - 1)
                /\ last_update.idx2 \in 0..(last_update.len_lons - 1)
                /\ last_update.len_lats = last_update.len_lons)
        /\ (pc = "inner" \/ InteriorUpdate =>
                \A cell \in Border : writes[cell[1]][cell[2]] >= 1)
        /\ (pc = "inner" =>
                /\ writes[Head(row_iter)][0] >= 1 /\ writes[Head(row_iter)][c] >= 1
                /\ idx_map[Head(row_iter)][0] \in 0..(Len(bbox_lons) - 1)
                /\ idx_map[Head(row_iter)][c] \in 0..(Len(bbox_lons) - 1))
        /\ (pc \in {"mesh", "done"} =>
                \A cell \in Cells : writes[cell[1]][cell[2]] >= 1)

C7_Witness ==
    /\ InBbox /\ c >= 3 /\ pc = "inner" /\ InteriorUpdate
    /\ last_update.idx1 = idx_map[1][0] /\ last_update.idx2 = idx_map[1][c]
    /\ last_update.idx1 >= 4

\* C8: in every build with c >= 2 every cell of the IndexGrid is assigned
\* exactly once before the face list is generated: none is left unassigned
\* and none is written by more than one fill.
C8_AssignedExactlyOnce ==
    (InBbox /\ c >= 2 /\ pc = "faces") =>
        \A cell \in Cells : writes[cell[1]][cell[2]] = 1

\* C8 as amended: every cell is assigned at least once before the face list
\* is generated; the cells of column 0 and column c (corners and the ends of
\* the interior rows) are assigned twice, every other cell once.
C8_FillCounts ==
    (InBbox /\ c >= 2 /\ pc = "faces") =>
        \A cell \in Cells :
            writes[cell[1]][cell[2]] = (IF cell[2] \in {0, c} THEN 2 ELSE 1)

\* C8 as amended, second half: a fill that assigns a cell again assigns the
\* index the cell already holds.
C8_SameValueStep ==
    (Allocated /\ c >= 2) =>
        \A cell \in Cells :
            writes[cell[1]][cell[2]] >= 1 => idx_map'[cell[1]][cell[2]] = idx_map[cell[1]][cell[2]]

\* C8 as amended: every cell is assigned at least once before the face list
\* is generated, the cells of column 0 and column c twice and every other
\* cell once, and a second assignment repeats the index the cell holds.
C8_AssignedOnceOrSame == [](C8_FillCounts) /\ [][C8_SameValueStep]_vars

C8_Witness ==
    /\ InBbox /\ c >= 3 /\ pc = "faces"
    /\ writes[0][0] = 2 /\ writes[1][c] = 2 /\ writes[1][1] = 1

\* C9: once the grid is filled the face list holds exactly one quad per
\* (i,j) in [0,c) x [0,c), at position i*c + j, referencing the grid entries
\* (i,j), (i,j+1), (i+1,j+1), (i+1,j) in that order; the grid corners (0,0),
\* (0,c), (c,c), (c,0) hold the corner indices 0, 1, 2, 3.
C9_FaceList ==
    (InBbox /\ pc \in {"mesh", "done"}) =>
        /\ Len(faces) = c * c
        /\ \A i \in 0..(c - 1), j \in 0..(c - 1) :
              faces[i * c + j + 1] = << 4, idx_map[i][j], idx_map[i][j + 1],
                                        idx_map[i + 1][j + 1], idx_map[i + 1][j] >>
        /\ idx_map[0][0] = 0 /\ idx_map[0][c] = 1
        /\ idx_map[c][c] = 2 /\ idx_map[c][0] = 3

C9_Witness ==
    /\ InBbox /\ pc = "done" /\ c >= 2 /\ Len(faces) = c * c
    /\ faces[c + 2][2] = idx_map[1][1]

IsPrefix(a, b) == Len(a) <= Len(b) /\ \A k \in 1..Len(a) : b[k] = a[k]

Seeded == pc \in {"edge_top", "edge_bottom", "edge_left", "edge_right", "inner",
                  "faces", "mesh", "done"}

\* C10, in every state: after the seeding step and after every bbox_update
\* the counter bbox_count equals the length of both buffers, and the k-th
\* index bbox_update wrote into the IndexGrid for a new point is the buffer
\* position at which that call appended that point.
C10_InStep ==
    InBbox =>
        /\ (Seeded => bbox_count = Len(bbox_lons) /\ bbox_count = Len(bbox_lats))
        /\ (Seeded /\ last_update.called =>
                /\ Len(last_update.values) = Len(last_update.glons) + 2
                /\ \A k \in 1..Len(last_update.glons) :
                      /\ last_update.values[k + 1] = last_update.len_lons + k - 1
                      /\ At(bbox_lons, last_update.values[k + 1]) = last_update.glons[k]
                      /\ At(bbox_lats, last_update.values[k + 1]) = last_update.glats[k])

\* C10, in every step: no entry of the buffers is changed or removed.
C10_AppendStep == IsPrefix(bbox_lons, bbox_lons') /\ IsPrefix(bbox_lats, bbox_lats')

\* C10: throughout a build the VertexBuffer is append-only and its
\* bookkeeping stays in step.
C10_AppendOnlyInStep == [](C10_InStep) /\ [][C10_AppendStep]_vars

C10_Witness ==
    /\ InBbox /\ pc = "faces" /\ c >= 3 /\ InteriorUpdate
    /\ Len(last_update.glons) = c - 1
    /\ last_update.values[2] = bbox_count - (c - 1)
    /\ bbox_count = (c + 1) * (c + 1)

====
